---- MODULE Spec2Model ----
(***************************************************************************)
(* Model of the proxy core of Antigravity-Manager:                         *)
(*   - services/proxy.rs        ProxyService (start / stop / queries)      *)
(*   - proxy/common/model_mapping.rs   resolve_model_route                 *)
(* Callers are processes; every await point of a lifecycle method is a     *)
(* separate step, the instance RwLock is the variable wlock.               *)
(***************************************************************************)
EXTENDS Integers, Sequences, FiniteSets, TLC

(***************************************************************************)
(* Bounds of the model.                                                    *)
(***************************************************************************)
\* load_accounts reports 0..MaxAccounts active accounts
MaxAccounts == 1
\* the monitor's ring buffer keeps the last LogCapacity entries
LogCapacity == 1
\* at most MaxRequests requests are counted by one monitor between clears
MaxRequests == 2
\* listener tasks that can be alive at the same time
MaxListeners == 2

Procs == {"p1", "p2", "p3"}
Clients == {"p1", "p2"}

Ports == {8045, 8046}
ZaiDispatchMode == {"Off", "Exclusive"}

\* ProxyConfig, reduced to the fields ProxyService reads
ProxyConfig == [port : Ports, enable_logging : BOOLEAN,
                zai_enabled : BOOLEAN, zai_dispatch_mode : ZaiDispatchMode]

\* the configurations the callers pass to start
Configs ==
    { c \in ProxyConfig :
        \/ c.port = 8045 /\ c.enable_logging /\ ~c.zai_enabled /\ c.zai_dispatch_mode = "Off"
        \/ c.port = 8046 /\ ~c.enable_logging /\ c.zai_enabled /\ c.zai_dispatch_mode = "Exclusive"
        \/ c.port = 8046 /\ c.enable_logging /\ c.zai_enabled /\ c.zai_dispatch_mode = "Off"
        \/ c.port = 8045 /\ ~c.enable_logging /\ ~c.zai_enabled /\ c.zai_dispatch_mode = "Exclusive" }

NoConfig == [port |-> 0, enable_logging |-> FALSE,
             zai_enabled |-> FALSE, zai_dispatch_mode |-> "Off"]

(***************************************************************************)
(* Values.                                                                 *)
(***************************************************************************)
\* Option::None of the instance slot and of the monitor slot
NoInstance == [some |-> FALSE]
NoMonitor == [some |-> FALSE]

\* ProxyServiceInstance { config, token_manager, axum_server, server_handle }
ProxyServiceInstance(config, accounts, server) ==
    [some |-> TRUE, config |-> config, token_manager |-> accounts, server |-> server]

\* error messages of start and stop, by the names the specification gives them
ErrRunningAlready == "RunningAlready"
ErrNotRunning == "NotRunning"
ErrNoAccounts == "NoAccounts"
ErrAccountLoadFailed == "AccountLoadFailed"
ErrListenerStartFailed == "ListenerStartFailed"
ErrConfigPersistFailed == "ConfigPersistFailed"
ErrDataDirUnavailable == "DataDirUnavailable"

Pending == [tag |-> "Pending"]
Ok(v) == [tag |-> "Ok", val |-> v]
Err(e) == [tag |-> "Err", err |-> e]
IsOk(r) == r.tag = "Ok"
IsErr(r) == r.tag = "Err"

\* format!("http://127.0.0.1:{}", port)
BaseUrl(port) == "http://127.0.0.1:" \o ToString(port)

\* ProxyStatus returned by a successful start and by get_status when running
RunningStatus(port, accounts) ==
    [running |-> TRUE, port |-> port, base_url |-> BaseUrl(port),
     active_accounts |-> accounts]

\* ProxyStatus returned by get_status when the slot is empty
StoppedStatus ==
    [running |-> FALSE, port |-> 0, base_url |-> "", active_accounts |-> 0]

\* ProxyStats::default()
DefaultStats == [total_requests |-> 0]

\* ProxyMonitor::new(1000, None): empty ring buffer, zero counters
NewMonitor(id) ==
    [some |-> TRUE, id |-> id, enabled |-> FALSE, logs |-> << >>, stats |-> DefaultStats]

VARIABLES
    instance,     \* ProxyService.instance: the slot behind the RwLock
    monitor,      \* ProxyService.monitor: the slot behind its RwLock
    wlock,        \* holder of the write guard of instance ("free" when none)
    listener,     \* state of each listener task (AxumServer + JoinHandle)
    pc,           \* position of each caller
    op,           \* the method each caller is in
    cfg,          \* config argument of the start call in progress
    local,        \* locals of the call in progress: active_accounts, server, taken
    result,       \* value returned by the last call of each caller
    ghost,        \* history: what has happened so far (not program state)
    req,          \* arguments of the resolve_model_route call under test
    route         \* what that call returned

lifecycleVars == <<instance, monitor, wlock, listener, pc, op, cfg, local, result, ghost>>
routeVars == <<req, route>>
vars == <<instance, monitor, wlock, listener, pc, op, cfg, local, result, ghost, req, route>>

ListenerIds == 1..MaxListeners

NoLocal == [active_accounts |-> 0, server |-> 0]

NoGhost ==
    [ monitors |-> 0,          \* ProxyMonitor objects constructed so far
      checked |-> FALSE,       \* some start has passed the already-running check
      launched |-> FALSE,      \* some start has launched a listener
      published |-> FALSE,     \* some start has published an instance
      pubPort |-> 0,           \* port argument of the start that published the slot
      okPort |-> 0,            \* port of the start that returned Ok, until the next stop
      quiet |-> FALSE ]        \* a stop returned Ok and no start was in progress since

\* no resolve_model_route call is under test
NoRequest == [model |-> ""]
NotResolved == [tag |-> "Pending"]

\* ProxyService::new()
LifecycleInit ==
    /\ instance = NoInstance
    /\ monitor = NoMonitor
    /\ wlock = "free"
    /\ listener = [l \in ListenerIds |-> "unused"]
    /\ pc = [p \in Procs |-> "idle"]
    /\ op = [p \in Procs |-> "none"]
    /\ cfg = [p \in Procs |-> NoConfig]
    /\ local = [p \in Procs |-> NoLocal]
    /\ result = [p \in Procs |-> Pending]
    /\ ghost = NoGhost

Init ==
    /\ LifecycleInit
    /\ req = NoRequest
    /\ route = NotResolved

\* the caller returns r: the guards it holds are dropped with its frame
Return(p, r) ==
    /\ pc' = [pc EXCEPT ![p] = "done"]
    /\ result' = [result EXCEPT ![p] = r]
    /\ cfg' = [cfg EXCEPT ![p] = NoConfig]
    /\ local' = [local EXCEPT ![p] = NoLocal]
    /\ wlock' = IF wlock = p THEN "free" ELSE wlock

Goto(p, label) == pc' = [pc EXCEPT ![p] = label]

StartInProgress(p) == op[p] = "start" /\ pc[p] \notin {"idle", "done"}

(***************************************************************************)
(* start                                                                   *)
(***************************************************************************)
\* a caller enters start(config, _)
InvokeStart(p, c) ==
    /\ pc[p] = "idle"
    /\ Goto(p, "start_lock")
    /\ op' = [op EXCEPT ![p] = "start"]
    /\ cfg' = [cfg EXCEPT ![p] = c]
    /\ ghost' = [ghost EXCEPT !.quiet = FALSE]
    /\ UNCHANGED <<instance, monitor, wlock, listener, local, result>>
    /\ UNCHANGED routeVars

\* StartAcquire without the is_some() check
StartAcquireNoCheck(p) ==
    /\ pc[p] = "start_lock"
    /\ wlock = "free"
    /\ wlock' = p
    /\ Goto(p, "start_monitor")
    /\ ghost' = [ghost EXCEPT !.checked = TRUE]
    /\ UNCHANGED <<instance, monitor, listener, op, cfg, local, result>>
    /\ UNCHANGED routeVars

\* StartAcquire with set_enabled applied before the is_some() check
StartAcquireToggleFirst(p) ==
    /\ pc[p] = "start_lock"
    /\ wlock = "free"
    /\ monitor' = IF monitor.some
                    THEN [monitor EXCEPT !.enabled = cfg[p].enable_logging]
                    ELSE monitor
    /\ IF instance.some
         THEN /\ Return(p, Err(ErrRunningAlready))
              /\ UNCHANGED <<instance, listener, op, ghost>>
         ELSE /\ wlock' = p
              /\ Goto(p, "start_monitor")
              /\ ghost' = [ghost EXCEPT !.checked = TRUE]
              /\ UNCHANGED <<instance, listener, op, cfg, local, result>>
    /\ UNCHANGED routeVars

\* let instance_lock = self.instance.write().await;
\* if instance_lock.is_some() { return Err(..) }
StartAcquire(p) ==
    /\ pc[p] = "start_lock"
    /\ wlock = "free"
    /\ IF instance.some
         THEN /\ Return(p, Err(ErrRunningAlready))
              /\ UNCHANGED <<instance, monitor, listener, op, ghost>>
         ELSE /\ wlock' = p
              /\ Goto(p, "start_monitor")
              /\ ghost' = [ghost EXCEPT !.checked = TRUE]
              /\ UNCHANGED <<instance, monitor, listener, op, cfg, local, result>>
    /\ UNCHANGED routeVars

\* StartMonitor without the is_none() check: a new monitor on every start
StartMonitorAlwaysNew(p) ==
    /\ pc[p] = "start_monitor"
    /\ monitor' = [NewMonitor(ghost.monitors + 1) EXCEPT !.enabled = cfg[p].enable_logging]
    /\ ghost' = [ghost EXCEPT !.monitors = @ + 1]
    /\ Goto(p, "start_load")
    /\ UNCHANGED <<instance, wlock, listener, op, cfg, local, result>>
    /\ UNCHANGED routeVars

\* the monitor block: create the monitor if absent, then set_enabled
StartMonitor(p) ==
    /\ pc[p] = "start_monitor"
    /\ LET created == ~monitor.some
           m == IF created THEN NewMonitor(ghost.monitors + 1) ELSE monitor
       IN /\ monitor' = [m EXCEPT !.enabled = cfg[p].enable_logging]
          /\ ghost' = [ghost EXCEPT !.monitors = IF created THEN @ + 1 ELSE @]
    /\ Goto(p, "start_load")
    /\ UNCHANGED <<instance, wlock, listener, op, cfg, local, result>>
    /\ UNCHANGED routeVars

\* get_data_dir()?, get_accounts_dir()?, TokenManager::new, load_accounts().await
StartLoad(p) ==
    /\ pc[p] = "start_load"
    /\ \/ /\ Return(p, Err(ErrDataDirUnavailable))
          /\ UNCHANGED <<instance, monitor, listener, op, ghost>>
       \/ /\ Return(p, Err(ErrAccountLoadFailed))
          /\ UNCHANGED <<instance, monitor, listener, op, ghost>>
       \/ \E n \in 0..MaxAccounts :
            /\ local' = [local EXCEPT ![p].active_accounts = n]
            /\ Goto(p, "start_accounts")
            /\ UNCHANGED <<instance, monitor, wlock, listener, op, cfg, result, ghost>>
    /\ UNCHANGED routeVars

\* ZaiEnabled without the dispatch_mode test
ZaiEnabledIgnoresMode(c) == c.zai_enabled

\* config.zai.enabled && !matches!(config.zai.dispatch_mode, ZaiDispatchMode::Off)
ZaiEnabled(c) == c.zai_enabled /\ c.zai_dispatch_mode # "Off"

\* if active_accounts == 0 { if !zai_enabled { return Err(..) } }
StartAccounts(p) ==
    /\ pc[p] = "start_accounts"
    /\ IF local[p].active_accounts = 0 /\ ~ZaiEnabled(cfg[p])
         THEN /\ Return(p, Err(ErrNoAccounts))
              /\ UNCHANGED <<instance, monitor, listener, op, ghost>>
         ELSE /\ Goto(p, "start_launch")
              /\ UNCHANGED <<instance, monitor, wlock, listener, op, cfg, local, result, ghost>>
    /\ UNCHANGED routeVars

FreeListeners == { l \in ListenerIds : listener[l] = "unused" }

\* AxumServer::start(..).await: Ok((server, handle)) or Err(e)
StartLaunch(p) ==
    /\ pc[p] = "start_launch"
    /\ \/ /\ Return(p, Err(ErrListenerStartFailed))
          /\ UNCHANGED <<instance, monitor, listener, op, ghost>>
       \/ /\ FreeListeners # {}
          /\ LET l == CHOOSE x \in FreeListeners : \A y \in FreeListeners : x <= y
             IN /\ listener' = [listener EXCEPT ![l] = "running"]
                /\ local' = [local EXCEPT ![p].server = l]
          /\ ghost' = [ghost EXCEPT !.launched = TRUE]
          /\ Goto(p, "start_publish")
          /\ UNCHANGED <<instance, monitor, wlock, op, cfg, result>>
    /\ UNCHANGED routeVars

\* StartPublish storing a config with the default port instead of the argument
StartPublishDefaultPort(p) ==
    /\ pc[p] = "start_publish"
    /\ instance' = ProxyServiceInstance([cfg[p] EXCEPT !.port = 8045],
                                        local[p].active_accounts, local[p].server)
    /\ ghost' = [ghost EXCEPT !.published = TRUE, !.pubPort = cfg[p].port]
    /\ Goto(p, "start_persist")
    /\ UNCHANGED <<monitor, wlock, listener, op, cfg, local, result>>
    /\ UNCHANGED routeVars

\* let instance = ProxyServiceInstance {..}; *instance_lock = Some(instance);
StartPublish(p) ==
    /\ pc[p] = "start_publish"
    /\ instance' = ProxyServiceInstance(cfg[p], local[p].active_accounts, local[p].server)
    /\ ghost' = [ghost EXCEPT !.published = TRUE, !.pubPort = cfg[p].port]
    /\ Goto(p, "start_persist")
    /\ UNCHANGED <<monitor, wlock, listener, op, cfg, local, result>>
    /\ UNCHANGED routeVars

\* load_app_config()?, app_config.proxy = config, save_app_config()?, Ok(ProxyStatus)
StartPersist(p) ==
    /\ pc[p] = "start_persist"
    /\ \/ /\ Return(p, Err(ErrConfigPersistFailed))
          /\ UNCHANGED ghost
       \/ /\ Return(p, Ok(RunningStatus(cfg[p].port, local[p].active_accounts)))
          /\ ghost' = [ghost EXCEPT !.okPort = cfg[p].port]
    /\ UNCHANGED <<instance, monitor, listener, op>>
    /\ UNCHANGED routeVars

(***************************************************************************)
(* stop                                                                    *)
(***************************************************************************)
InvokeStop(p) ==
    /\ pc[p] = "idle"
    /\ Goto(p, "stop_lock")
    /\ op' = [op EXCEPT ![p] = "stop"]
    /\ UNCHANGED <<instance, monitor, wlock, listener, cfg, local, result, ghost>>
    /\ UNCHANGED routeVars

\* StopAcquire reading the slot with as_ref() instead of take()
StopAcquireNoTake(p) ==
    /\ pc[p] = "stop_lock"
    /\ wlock = "free"
    /\ IF ~instance.some
         THEN /\ Return(p, Err(ErrNotRunning))
              /\ UNCHANGED <<instance, monitor, listener, op, ghost>>
         ELSE /\ wlock' = p
              /\ local' = [local EXCEPT ![p].server = instance.server]
              /\ listener' = [listener EXCEPT ![instance.server] = "signalled"]
              /\ ghost' = [ghost EXCEPT !.okPort = 0, !.pubPort = 0]
              /\ Goto(p, "stop_await")
              /\ UNCHANGED <<instance, monitor, op, cfg, result>>
    /\ UNCHANGED routeVars

\* let mut instance_lock = self.instance.write().await; is_none -> Err;
\* instance_lock.take(); instance.axum_server.stop();
StopAcquire(p) ==
    /\ pc[p] = "stop_lock"
    /\ wlock = "free"
    /\ IF ~instance.some
         THEN /\ Return(p, Err(ErrNotRunning))
              /\ UNCHANGED <<instance, monitor, listener, op, ghost>>
         ELSE /\ wlock' = p
              /\ instance' = NoInstance
              /\ local' = [local EXCEPT ![p].server = instance.server]
              /\ listener' = [listener EXCEPT ![instance.server] = "signalled"]
              /\ ghost' = [ghost EXCEPT !.okPort = 0, !.pubPort = 0]
              /\ Goto(p, "stop_await")
              /\ UNCHANGED <<monitor, op, cfg, result>>
    /\ UNCHANGED routeVars

\* the listener task ends after the shutdown signal
ListenerExit(l) ==
    /\ listener[l] = "signalled"
    /\ listener' = [listener EXCEPT ![l] = "exited"]
    /\ UNCHANGED <<instance, monitor, wlock, pc, op, cfg, local, result, ghost>>
    /\ UNCHANGED routeVars

\* StopJoin returning without awaiting the listener task
StopJoinNoAwait(p) ==
    /\ pc[p] = "stop_await"
    /\ Return(p, Ok("unit"))
    /\ ghost' = [ghost EXCEPT !.quiet = \A q \in Procs : ~StartInProgress(q)]
    /\ UNCHANGED <<instance, monitor, listener, op>>
    /\ UNCHANGED routeVars

\* instance.server_handle.await.ok(); Ok(())
StopJoin(p) ==
    /\ pc[p] = "stop_await"
    /\ listener[local[p].server] = "exited"
    /\ listener' = [listener EXCEPT ![local[p].server] = "unused"]
    /\ Return(p, Ok("unit"))
    /\ ghost' = [ghost EXCEPT !.quiet = \A q \in Procs : ~StartInProgress(q)]
    /\ UNCHANGED <<instance, monitor, op>>
    /\ UNCHANGED routeVars

(***************************************************************************)
(* queries                                                                 *)
(***************************************************************************)
\* StatusOf whose None arm reports the default port
StatusOfDefaultPort(inst) ==
    IF inst.some
      THEN RunningStatus(inst.config.port, inst.token_manager)
      ELSE [StoppedStatus EXCEPT !.port = 8045]

\* the match of get_status on instance_lock.as_ref()
StatusOf(inst) ==
    IF inst.some
      THEN RunningStatus(inst.config.port, inst.token_manager)
      ELSE StoppedStatus

\* get_status: self.instance.read().await, then the match
GetStatus(p) ==
    /\ pc[p] = "idle"
    /\ wlock = "free"
    /\ op' = [op EXCEPT ![p] = "get_status"]
    /\ Return(p, Ok(StatusOf(instance)))
    /\ UNCHANGED <<instance, monitor, listener, ghost>>
    /\ UNCHANGED routeVars

\* monitor.get_logs(limit): the most recent `limit` entries
MonitorLogs(m, limit) ==
    IF Len(m.logs) <= limit THEN m.logs
    ELSE SubSeq(m.logs, Len(m.logs) - limit + 1, Len(m.logs))

\* the body of get_stats
StatsOf(m) == IF m.some THEN m.stats ELSE DefaultStats

\* the body of get_logs
LogsOf(m, limit) == IF m.some THEN MonitorLogs(m, limit) ELSE << >>

GetStats(p) ==
    /\ pc[p] = "idle"
    /\ op' = [op EXCEPT ![p] = "get_stats"]
    /\ Return(p, Ok(StatsOf(monitor)))
    /\ UNCHANGED <<instance, monitor, listener, ghost>>
    /\ UNCHANGED routeVars

GetLogs(p, limit) ==
    /\ pc[p] = "idle"
    /\ op' = [op EXCEPT ![p] = "get_logs"]
    /\ Return(p, Ok(LogsOf(monitor, limit)))
    /\ UNCHANGED <<instance, monitor, listener, ghost>>
    /\ UNCHANGED routeVars

\* monitor.clear(): empties the buffer and resets the counters
ClearLogs(p) ==
    /\ pc[p] = "idle"
    /\ op' = [op EXCEPT ![p] = "clear_logs"]
    /\ monitor' = IF monitor.some
                    THEN [monitor EXCEPT !.logs = << >>, !.stats = DefaultStats]
                    ELSE monitor
    /\ Return(p, Ok("unit"))
    /\ UNCHANGED <<instance, listener, ghost>>
    /\ UNCHANGED routeVars

\* a live listener serves a request and records it in the monitor it was given
LogRequest(l) ==
    /\ listener[l] \in {"running", "signalled"}
    /\ monitor.some
    /\ monitor.enabled
    /\ monitor.stats.total_requests < MaxRequests
    /\ LET appended == Append(monitor.logs, "request")
           kept == IF Len(appended) > LogCapacity THEN Tail(appended) ELSE appended
       IN monitor' = [monitor EXCEPT !.logs = kept,
                                     !.stats.total_requests = @ + 1]
    /\ UNCHANGED <<instance, wlock, listener, pc, op, cfg, local, result, ghost>>
    /\ UNCHANGED routeVars

\* the caller goes on to its next call
Reset(p) ==
    /\ pc[p] = "done"
    /\ pc' = [pc EXCEPT ![p] = "idle"]
    /\ op' = [op EXCEPT ![p] = "none"]
    /\ result' = [result EXCEPT ![p] = Pending]
    /\ UNCHANGED <<instance, monitor, wlock, listener, cfg, local, ghost>>
    /\ UNCHANGED routeVars

StartStep(p) ==
    \/ StartAcquire(p)
    \/ StartMonitor(p)
    \/ StartLoad(p)
    \/ StartAccounts(p)
    \/ StartLaunch(p)
    \/ StartPublish(p)
    \/ StartPersist(p)

Next ==
    \/ \E p \in Clients, c \in Configs : InvokeStart(p, c)
    \/ \E p \in Clients : StartStep(p)
    \/ \E p \in Clients : InvokeStop(p)
    \/ \E p \in Clients : StopAcquire(p)
    \/ \E p \in Clients : StopJoin(p)
    \/ \E l \in ListenerIds : ListenerExit(l)
    \/ \E p \in Clients : GetStatus(p)
    \/ \E p \in Clients : GetStats(p)
    \/ \E p \in Clients, n \in 0..LogCapacity : GetLogs(p, n)
    \/ \E p \in Clients : ClearLogs(p)
    \/ \E l \in ListenerIds : LogRequest(l)
    \/ \E p \in Clients : Reset(p)

Spec == Init /\ [][Next]_vars

(***************************************************************************)
(* Model route resolver (model_mapping.rs).  Model ids are strings; a      *)
(* HashMap<String, String> is a function from its keys to their targets.   *)
(***************************************************************************)
\* entries a custom_mapping table has at most
MaxCustom == 2

\* str::starts_with
StartsWith(s, prefix) ==
    /\ Len(prefix) <= Len(s)
    /\ SubSeq(s, 1, Len(prefix)) = prefix

\* str::ends_with
EndsWith(s, suffix) ==
    /\ Len(suffix) <= Len(s)
    /\ SubSeq(s, Len(s) - Len(suffix) + 1, Len(s)) = suffix

\* str::contains
Contains(s, sub) ==
    \E i \in 0..(Len(s) - Len(sub)) : SubSeq(s, i + 1, i + Len(sub)) = sub

\* str::find of a one-character pattern: the first position, 1-based
Find(s, ch) ==
    CHOOSE i \in 1..Len(s) :
        /\ SubSeq(s, i, i) = ch
        /\ \A j \in 1..(i - 1) : SubSeq(s, j, j) # ch

UpperLetters == "ABCDEFGHIJKLMNOPQRSTUVWXYZ"
LowerLetters == "abcdefghijklmnopqrstuvwxyz"

LowerChar(c) ==
    IF \E i \in 1..Len(UpperLetters) : SubSeq(UpperLetters, i, i) = c
      THEN LET i == CHOOSE k \in 1..Len(UpperLetters) : SubSeq(UpperLetters, k, k) = c
           IN SubSeq(LowerLetters, i, i)
      ELSE c

\* str::to_lowercase
RECURSIVE ToLowercase(_)
ToLowercase(s) ==
    IF Len(s) = 0 THEN "" ELSE LowerChar(SubSeq(s, 1, 1)) \o ToLowercase(Tail(s))

\* the static table CLAUDE_TO_GEMINI, as <<key, target>> pairs
CLAUDE_TO_GEMINI ==
    { <<"claude-opus-4-5-thinking", "claude-opus-4-5-thinking">>,
      <<"claude-sonnet-4-5", "claude-sonnet-4-5">>,
      <<"claude-sonnet-4-5-thinking", "claude-sonnet-4-5-thinking">>,
      <<"claude-sonnet-4-5-20250929", "claude-sonnet-4-5-thinking">>,
      <<"claude-3-5-sonnet-20241022", "claude-sonnet-4-5">>,
      <<"claude-3-5-sonnet-20240620", "claude-sonnet-4-5">>,
      <<"claude-opus-4", "claude-opus-4-5-thinking">>,
      <<"claude-opus-4-5-20251101", "claude-opus-4-5-thinking">>,
      <<"claude-haiku-4", "claude-sonnet-4-5">>,
      <<"claude-3-haiku-20240307", "claude-sonnet-4-5">>,
      <<"claude-haiku-4-5-20251001", "claude-sonnet-4-5">>,
      <<"gpt-4", "gemini-2.5-pro">>,
      <<"gpt-4-turbo", "gemini-2.5-pro">>,
      <<"gpt-4-turbo-preview", "gemini-2.5-pro">>,
      <<"gpt-4-0125-preview", "gemini-2.5-pro">>,
      <<"gpt-4-1106-preview", "gemini-2.5-pro">>,
      <<"gpt-4-0613", "gemini-2.5-pro">>,
      <<"gpt-4o", "gemini-2.5-pro">>,
      <<"gpt-4o-2024-05-13", "gemini-2.5-pro">>,
      <<"gpt-4o-2024-08-06", "gemini-2.5-pro">>,
      <<"gpt-4o-mini", "gemini-2.5-flash">>,
      <<"gpt-4o-mini-2024-07-18", "gemini-2.5-flash">>,
      <<"gpt-3.5-turbo", "gemini-2.5-flash">>,
      <<"gpt-3.5-turbo-16k", "gemini-2.5-flash">>,
      <<"gpt-3.5-turbo-0125", "gemini-2.5-flash">>,
      <<"gpt-3.5-turbo-1106", "gemini-2.5-flash">>,
      <<"gpt-3.5-turbo-0613", "gemini-2.5-flash">>,
      <<"gemini-2.5-flash-lite", "gemini-2.5-flash-lite">>,
      <<"gemini-2.5-flash-thinking", "gemini-2.5-flash-thinking">>,
      <<"gemini-3-pro-low", "gemini-3-pro-low">>,
      <<"gemini-3-pro-high", "gemini-3-pro-high">>,
      <<"gemini-3-pro-preview", "gemini-3-pro-preview">>,
      <<"gemini-3-pro", "gemini-3-pro">>,
      <<"gemini-2.5-flash", "gemini-2.5-flash">>,
      <<"gemini-3-flash", "gemini-3-flash">>,
      <<"gemini-3-pro-image", "gemini-3-pro-image">> }

\* CLAUDE_TO_GEMINI.get(key).is_some()
BuiltinHas(key) == \E e \in CLAUDE_TO_GEMINI : e[1] = key

\* CLAUDE_TO_GEMINI.get(key), for a key the table has
BuiltinGet(key) == (CHOOSE e \in CLAUDE_TO_GEMINI : e[1] = key)[2]

map_claude_model_to_gemini(input) ==
    IF BuiltinHas(input) THEN BuiltinGet(input)
    ELSE IF StartsWith(input, "gemini-") \/ Contains(input, "thinking") THEN input
    ELSE "claude-sonnet-4-5"

wildcard_match(pattern, text) ==
    IF Contains(pattern, "*")
      THEN LET star_pos == Find(pattern, "*")
               prefix == SubSeq(pattern, 1, star_pos - 1)
               suffix == SubSeq(pattern, star_pos + 1, Len(pattern))
           IN StartsWith(text, prefix) /\ EndsWith(text, suffix)
      ELSE pattern = text

\* the patterns of custom_mapping that the wildcard loop accepts for the
\* model, in the order in which custom_mapping.iter() yields them
WildcardHits(original_model, order) ==
    SelectSeq(order, LAMBDA pattern :
        Contains(pattern, "*") /\ wildcard_match(pattern, original_model))

\* the condition of the GPT-4 series branch
IsGpt4Series(lower_model) ==
    \/ /\ StartsWith(lower_model, "gpt-4")
       /\ ~Contains(lower_model, "o")
       /\ ~Contains(lower_model, "mini")
       /\ ~Contains(lower_model, "turbo")
    \/ StartsWith(lower_model, "o1-")
    \/ StartsWith(lower_model, "o3-")
    \/ lower_model = "gpt-4"

\* the condition of the GPT-4o / 3.5 series branch
IsGpt4oSeries(lower_model) ==
    \/ Contains(lower_model, "4o")
    \/ StartsWith(lower_model, "gpt-3.5")
    \/ Contains(lower_model, "mini") /\ ~Contains(lower_model, "gemini")
    \/ Contains(lower_model, "turbo")

\* the family key of a claude- model
ClaudeFamilyKey(lower_model) ==
    IF Contains(lower_model, "4-5") \/ Contains(lower_model, "4.5") THEN "claude-4.5-series"
    ELSE IF Contains(lower_model, "3-5") \/ Contains(lower_model, "3.5") THEN "claude-3.5-series"
    ELSE "claude-default"

Has(mapping, key) == key \in DOMAIN mapping

\* resolve_model_route with the wildcard loop run before the exact lookup
ResolveWildcardFirst(original_model, custom_mapping, openai_mapping, anthropic_mapping, apply_claude_family_mapping, order) ==
    LET hits == WildcardHits(original_model, order)
    IN IF hits # << >> THEN custom_mapping[Head(hits)]
       ELSE IF Has(custom_mapping, original_model) THEN custom_mapping[original_model]
       ELSE map_claude_model_to_gemini(original_model)

\* resolve_model_route; order is the order in which custom_mapping.iter()
\* yields the keys of custom_mapping
resolve_model_route(original_model, custom_mapping, openai_mapping, anthropic_mapping, apply_claude_family_mapping, order) ==
    LET hits == WildcardHits(original_model, order)
        lower_model == ToLowercase(original_model)
        family_key == ClaudeFamilyKey(lower_model)
    IN
    \* 1. exact match
    IF Has(custom_mapping, original_model) THEN custom_mapping[original_model]
    \* 2. wildcard match
    ELSE IF hits # << >> THEN custom_mapping[Head(hits)]
    \* 3. OpenAI families
    ELSE IF IsGpt4Series(lower_model) /\ Has(openai_mapping, "gpt-4-series")
      THEN openai_mapping["gpt-4-series"]
    ELSE IF IsGpt4oSeries(lower_model) /\ Has(openai_mapping, "gpt-4o-series")
      THEN openai_mapping["gpt-4o-series"]
    ELSE IF StartsWith(lower_model, "gpt-5") /\ Has(openai_mapping, "gpt-5-series")
      THEN openai_mapping["gpt-5-series"]
    ELSE IF StartsWith(lower_model, "gpt-5") /\ Has(openai_mapping, "gpt-4-series")
      THEN openai_mapping["gpt-4-series"]
    \* 4. Anthropic families
    ELSE IF /\ StartsWith(lower_model, "claude-")
            /\ BuiltinHas(original_model)
            /\ BuiltinGet(original_model) = original_model
      THEN original_model
    ELSE IF /\ StartsWith(lower_model, "claude-")
            /\ apply_claude_family_mapping
            /\ Contains(lower_model, "haiku")
      THEN "gemini-2.5-flash-lite"
    ELSE IF StartsWith(lower_model, "claude-") /\ Has(anthropic_mapping, family_key)
      THEN anthropic_mapping[family_key]
    ELSE IF StartsWith(lower_model, "claude-") /\ Has(anthropic_mapping, original_model)
      THEN anthropic_mapping[original_model]
    \* 5. built-in map
    ELSE map_claude_model_to_gemini(original_model)

\* the inputs of the resolver under test
RouteModels ==
    { "gpt-4", "GPT-4", "gpt-4-turbo", "gpt-4o-mini", "gpt-5.1", "o1-mini",
      "claude-sonnet-4-5", "claude-opus-4", "claude-3-5-sonnet-20241022",
      "claude-3-haiku-20240307", "gemini-2.5-flash-mini-test", "unknown-model" }

CustomKeys == { "gpt-4", "gpt-4*", "*-turbo", "claude-*", "claude-opus-4" }

RouteTargets == { "gemini-3-pro-high", "strategy:fast" }

\* the functions from a set of at most n of the keys to the targets
Tables(keys, targets, n) ==
    UNION { [ks -> targets] : ks \in { k \in SUBSET keys : Cardinality(k) <= n } }

CustomTables == Tables(CustomKeys, RouteTargets, MaxCustom)

EmptyTable == [k \in {} |-> ""]

OpenAiTables ==
    { EmptyTable,
      [k \in {"gpt-4-series"} |-> "gemini-3-pro-low"],
      [k \in {"gpt-4o-series", "gpt-5-series"} |->
          IF k = "gpt-4o-series" THEN "gemini-3-flash" ELSE "strategy:fast"] }

AnthropicTables ==
    { EmptyTable,
      [k \in {"claude-4.5-series", "claude-opus-4"} |->
          IF k = "claude-opus-4" THEN "gemini-3-pro" ELSE "strategy:fast"],
      [k \in {"claude-3.5-series", "claude-default"} |->
          IF k = "claude-default" THEN "gemini-2.5-flash" ELSE "gemini-3-pro-image"] }

RouteRequests ==
    [ model : RouteModels,
      custom : CustomTables,
      openai : OpenAiTables,
      anthropic : AnthropicTables,
      apply_claude_family_mapping : BOOLEAN ]

\* the orders in which a HashMap with these keys can be iterated
Orders(keys) ==
    { o \in [1..Cardinality(keys) -> keys] : \A i, j \in DOMAIN o : i # j => o[i] # o[j] }

InitRoute ==
    /\ LifecycleInit
    /\ req \in RouteRequests
    /\ route = NotResolved

\* one call of resolve_model_route on the request
ResolveRoute ==
    /\ route = NotResolved
    /\ \E order \in Orders(DOMAIN req.custom) :
         route' = [tag |-> "Route",
                   target |-> resolve_model_route(req.model, req.custom, req.openai,
                                  req.anthropic, req.apply_claude_family_mapping, order)]
    /\ UNCHANGED req
    /\ UNCHANGED lifecycleVars

NextRoute == ResolveRoute

SpecRoute == InitRoute /\ [][NextRoute]_vars

(***************************************************************************)
(* The route plan: resolve_model_route_plan and ModelRoutePlan.            *)
(***************************************************************************)
MaxCandidates == 2

MaxFallbacks == 2

MaxHops == 3

\* Option<T>
None == [some |-> FALSE]

Some(x) == [some |-> TRUE, value |-> x]

\* str::trim_start and str::trim_end, for the whitespace character " "
RECURSIVE TrimStart(_)
TrimStart(s) ==
    IF Len(s) > 0 /\ SubSeq(s, 1, 1) = " " THEN TrimStart(Tail(s)) ELSE s

RECURSIVE TrimEnd(_)
TrimEnd(s) ==
    IF Len(s) > 0 /\ SubSeq(s, Len(s), Len(s)) = " "
      THEN TrimEnd(SubSeq(s, 1, Len(s) - 1))
      ELSE s

\* str::trim
Trim(s) == TrimEnd(TrimStart(s))

\* ModelFallbackPolicy
ModelFallbackPolicy(model_priority, stickiness, max_model_hops) ==
    [ model_priority |-> model_priority,
      stickiness |-> stickiness,
      max_model_hops |-> max_model_hops ]

\* ModelFallbackPolicy::default()
DefaultPolicy == ModelFallbackPolicy("AccuracyFirst", "Strong", None)

\* ModelStrategy
ModelStrategy(candidates, policy) == [candidates |-> candidates, policy |-> policy]

\* ModelRoutePlan
ModelRoutePlan(primary, fallbacks, policy, strategy_id) ==
    [ primary |-> primary,
      fallbacks |-> fallbacks,
      policy |-> policy,
      strategy_id |-> strategy_id ]

\* ModelRoutePlan::candidates
candidates(plan) ==
    (IF plan.primary # "" THEN <<plan.primary>> ELSE << >>)
      \o SelectSeq(plan.fallbacks, LAMBDA fb : fb # "")

\* ModelRoutePlan::max_models with the wildcard arm returning the bare count
MaxModelsBareCount(plan) ==
    LET count == Len(candidates(plan))
        hops == plan.policy.max_model_hops
    IN IF hops.some /\ hops.value > 0
         THEN (IF hops.value < count THEN hops.value ELSE count)
         ELSE count

\* ModelRoutePlan::max_models
max_models(plan) ==
    LET count == Len(candidates(plan))
        hops == plan.policy.max_model_hops
    IN IF hops.some /\ hops.value > 0
         THEN (IF hops.value < count THEN hops.value ELSE count)
         ELSE (IF count > 1 THEN count ELSE 1)

extract_strategy_id(value) ==
    IF StartsWith(value, "strategy:")
      THEN Some(SubSeq(value, Len("strategy:") + 1, Len(value)))
      ELSE None

\* the candidates of the strategy as they are, neither trimmed nor filtered
StrategyCandidatesUnfiltered(strategy) == strategy.candidates

\* the candidates of the strategy, trimmed, without the empty ones and the
\* ones that name a strategy
StrategyCandidates(strategy) ==
    LET trimmed == [i \in DOMAIN strategy.candidates |-> Trim(strategy.candidates[i])]
    IN SelectSeq(trimmed, LAMBDA c : c # "" /\ ~StartsWith(c, "strategy:"))

\* the plan of the fall-through path with the resolved target as primary
FallThroughKeepsTarget(original_model, target) ==
    ModelRoutePlan(target, << >>, DefaultPolicy, None)

\* the plan returned when the target names no strategy or its expansion failed
FallThroughPlan(original_model, target) ==
    ModelRoutePlan(
        IF StartsWith(target, "strategy:")
          THEN map_claude_model_to_gemini(original_model)
          ELSE target,
        << >>, DefaultPolicy, None)

\* order is the order in which custom_mapping.iter() yields its keys
resolve_model_route_plan(original_model, custom_mapping, openai_mapping, anthropic_mapping, model_strategies, apply_claude_family_mapping, order) ==
    LET target == resolve_model_route(original_model, custom_mapping, openai_mapping,
                      anthropic_mapping, apply_claude_family_mapping, order)
        strategy_id == extract_strategy_id(target)
    IN IF strategy_id.some /\ Has(model_strategies, strategy_id.value)
         THEN LET strategy == model_strategies[strategy_id.value]
                  cands == StrategyCandidates(strategy)
              IN IF cands # << >>
                   THEN ModelRoutePlan(Head(cands), Tail(cands), strategy.policy,
                            Some(strategy_id.value))
                   ELSE FallThroughPlan(original_model, target)
         ELSE FallThroughPlan(original_model, target)

\* the inputs of the planner under test
PlanModels ==
    { "gpt-4", "claude-opus-4-5-20251101", "claude-3-5-sonnet-20241022",
      "strategy:thinking" }

PlanCustomTables ==
    { EmptyTable,
      [k \in {"gpt-4"} |-> "strategy:fast"],
      [k \in {"gpt-4"} |-> ""],
      [k \in {"gpt-4"} |-> "gemini-3-flash"],
      [k \in {"claude-3-5-sonnet-20241022"} |-> "strategy:missing"],
      [k \in {"*thinking"} |-> "strategy:missing"],
      [k \in {"*thinking"} |-> "strategy:fast"] }

PlanOpenAiTables ==
    { EmptyTable, [k \in {"gpt-4-series"} |-> "strategy:fast"] }

PlanAnthropicTables ==
    { EmptyTable, [k \in {"claude-4.5-series"} |-> "strategy:fast"] }

CandidateStrings == { "", " strategy:slow", " gemini-3-flash ", "gemini-3-pro-high" }

\* the sequences over the set of length at most n
SeqsUpTo(set, n) == UNION { [1..k -> set] : k \in 0..n }

PlanPolicies ==
    { DefaultPolicy, ModelFallbackPolicy("CapacityFirst", "Weak", Some(1)) }

StrategyMaps ==
    { EmptyTable }
      \cup { [id \in {"fast"} |-> ModelStrategy(cs, p)] :
                 cs \in SeqsUpTo(CandidateStrings, MaxCandidates), p \in PlanPolicies }

PlanRequests ==
    [ model : PlanModels,
      custom : PlanCustomTables,
      openai : PlanOpenAiTables,
      anthropic : PlanAnthropicTables,
      strategies : StrategyMaps,
      apply_claude_family_mapping : BOOLEAN ]

InitPlan ==
    /\ LifecycleInit
    /\ req \in PlanRequests
    /\ route = NotResolved

\* one call of resolve_model_route_plan on the request; target is the value
\* of its local variable of that name
ResolvePlan ==
    /\ route = NotResolved
    /\ \E order \in Orders(DOMAIN req.custom) :
         route' = [tag |-> "Plan",
                   target |-> resolve_model_route(req.model, req.custom, req.openai,
                                  req.anthropic, req.apply_claude_family_mapping, order),
                   plan |-> resolve_model_route_plan(req.model, req.custom, req.openai,
                                req.anthropic, req.strategies,
                                req.apply_claude_family_mapping, order)]
    /\ UNCHANGED req
    /\ UNCHANGED lifecycleVars

NextPlan == ResolvePlan

SpecPlan == InitPlan /\ [][NextPlan]_vars

\* the plans given to max_models: any primary, fallbacks and hop limit
ClampPlans ==
    { ModelRoutePlan(primary, fallbacks, ModelFallbackPolicy("AccuracyFirst", "Strong", hops), None) :
          primary \in {"", "gemini-3-pro-high"},
          fallbacks \in SeqsUpTo({"", "gemini-3-flash", "gemini-2.5-flash"}, MaxFallbacks),
          hops \in {None} \cup {Some(h) : h \in 0..MaxHops} }

InitClamp ==
    /\ LifecycleInit
    /\ req \in ClampPlans
    /\ route = NotResolved

\* one call of candidates and of max_models on the plan
CountModels ==
    /\ route = NotResolved
    /\ route' = [tag |-> "Count",
                 candidates |-> candidates(req),
                 max_models |-> max_models(req)]
    /\ UNCHANGED req
    /\ UNCHANGED lifecycleVars

NextClamp == CountModels

SpecClamp == InitClamp /\ [][NextClamp]_vars

(***************************************************************************)
(* The schema flattener: clean_json_schema on serde_json::Value trees.     *)
(***************************************************************************)
MaxCleanCalls == 2

\* serde_json::Value
JsonNull == [t |-> "null"]

JsonNumber(n) == [t |-> "number", n |-> n]

JsonString(s) == [t |-> "string", s |-> s]

JsonArray(a) == [t |-> "array", a |-> a]

JsonObject(m) == [t |-> "object", m |-> m]

IsObject(v) == v.t = "object"

IsArray(v) == v.t = "array"

IsString(v) == v.t = "string"

\* serde_json::Map::new()
EmptyMap == [k \in {} |-> JsonNull]

\* the map after Map::remove(key)
MapRemove(map, key) == [k \in DOMAIN map \ {key} |-> map[k]]

\* the map after Map::extend(other): the entries of other replace
MapExtend(map, other) ==
    [k \in DOMAIN map \cup DOMAIN other |-> IF k \in DOMAIN other THEN other[k] ELSE map[k]]

\* the map after map.entry(k).or_insert_with(v) for every (k, v) of def_map
MapInsertMissing(map, def_map) ==
    [k \in DOMAIN map \cup DOMAIN def_map |-> IF k \in DOMAIN map THEN map[k] ELSE def_map[k]]

UpperChar(c) ==
    IF \E i \in 1..Len(LowerLetters) : SubSeq(LowerLetters, i, i) = c
      THEN LET i == CHOOSE k \in 1..Len(LowerLetters) : SubSeq(LowerLetters, k, k) = c
           IN SubSeq(UpperLetters, i, i)
      ELSE c

\* str::to_uppercase
RECURSIVE ToUppercase(_)
ToUppercase(s) ==
    IF Len(s) = 0 THEN "" ELSE UpperChar(SubSeq(s, 1, 1)) \o ToUppercase(Tail(s))

\* ref_path.split('/').last()
RECURSIVE RefName(_)
RefName(ref_path) ==
    IF Contains(ref_path, "/")
      THEN RefName(SubSeq(ref_path, Find(ref_path, "/") + 1, Len(ref_path)))
      ELSE ref_path

\* flatten_refs on a map, with the map after the call as its value
RECURSIVE flatten_refs(_, _)
flatten_refs(map, defs) ==
    LET removed == MapRemove(map, "$ref")
        resolves ==
            /\ "$ref" \in DOMAIN map
            /\ IsString(map["$ref"])
            /\ RefName(map["$ref"].s) \in DOMAIN defs
            /\ IsObject(defs[RefName(map["$ref"].s)])
        merged ==
            IF resolves
              THEN flatten_refs(
                       MapInsertMissing(removed, defs[RefName(map["$ref"].s)].m), defs)
              ELSE removed
        child(v) ==
            IF IsObject(v) THEN JsonObject(flatten_refs(v.m, defs))
            ELSE IF IsArray(v)
              THEN JsonArray([i \in DOMAIN v.a |->
                       IF IsObject(v.a[i])
                         THEN JsonObject(flatten_refs(v.a[i].m, defs))
                         ELSE v.a[i]])
            ELSE v
    IN [k \in DOMAIN merged |-> child(merged[k])]

\* the keys that clean_json_schema_recursive removes
FieldsToRemove ==
    { "$schema", "additionalProperties", "format", "default", "uniqueItems",
      "minLength", "maxLength", "minimum", "maximum", "exclusiveMinimum",
      "exclusiveMaximum", "multipleOf", "minItems", "maxItems", "pattern",
      "const", "minProperties", "maxProperties", "propertyNames",
      "patternProperties", "contains", "minContains", "maxContains",
      "if", "then", "else", "not" }

\* the first string item of the array that is not "null", in upper case, or
\* "STRING" when there is none
RECURSIVE SelectedType(_)
SelectedType(arr) ==
    IF arr = << >> THEN "STRING"
    ELSE IF IsString(Head(arr)) /\ Head(arr).s # "null" THEN ToUppercase(Head(arr).s)
    ELSE SelectedType(Tail(arr))

\* the value of the type key after step 2
NormalizeType(type_val) ==
    IF IsString(type_val) THEN JsonString(ToUppercase(type_val.s))
    ELSE IF IsArray(type_val) THEN JsonString(SelectedType(type_val.a))
    ELSE type_val

RECURSIVE clean_json_schema_recursive(_)
clean_json_schema_recursive(value) ==
    IF IsObject(value)
      THEN LET kept == DOMAIN value.m \ FieldsToRemove
               typed == [k \in kept |->
                            IF k = "type" THEN NormalizeType(value.m[k]) ELSE value.m[k]]
           IN JsonObject([k \in kept |->
                  LET v == typed[k]
                  IN IF k = "properties"
                       THEN (IF IsObject(v)
                               THEN JsonObject([n \in DOMAIN v.m |->
                                        clean_json_schema_recursive(v.m[n])])
                               ELSE v)
                     ELSE IF k = "items" THEN clean_json_schema_recursive(v)
                     ELSE IF k \in {"allOf", "anyOf", "oneOf"}
                       THEN (IF IsArray(v)
                               THEN JsonArray([i \in DOMAIN v.a |->
                                        clean_json_schema_recursive(v.a[i])])
                               ELSE v)
                     ELSE v])
    ELSE IF IsArray(value)
      THEN JsonArray([i \in DOMAIN value.a |-> clean_json_schema_recursive(value.a[i])])
    ELSE value

\* clean_json_schema, with the value after the call as its value
clean_json_schema(value) ==
    IF IsObject(value)
      THEN LET map == value.m
               has(key) == key \in DOMAIN map /\ IsObject(map[key])
               defs1 == IF has("$defs") THEN MapExtend(EmptyMap, map["$defs"].m) ELSE EmptyMap
               defs == IF has("definitions") THEN MapExtend(defs1, map["definitions"].m) ELSE defs1
               rest == MapRemove(MapRemove(map, "$defs"), "definitions")
           IN clean_json_schema_recursive(
                  JsonObject(IF DOMAIN defs # {} THEN flatten_refs(rest, defs) ELSE rest))
      ELSE clean_json_schema_recursive(value)

\* a key that the object does not have
Absent == [t |-> "absent"]

\* the object with the given values under the keys whose value is not Absent
SchemaObject(entries) ==
    JsonObject([k \in { n \in DOMAIN entries : entries[n] # Absent } |-> entries[k]])

\* {"type": "string", "maxLength": 5}
ShortString ==
    JsonObject([k \in {"type", "maxLength"} |->
        IF k = "type" THEN JsonString("string") ELSE JsonNumber(5)])

\* {"$ref": path}
RefTo(path) == JsonObject([k \in {"$ref"} |-> JsonString(path)])

\* the values of $defs at the root: none, a plain definition, a definition
\* that carries $defs and $ref of its own, a definition that carries
\* definitions of its own
DefsChoices ==
    { Absent,
      JsonObject([k \in {"X"} |-> ShortString]),
      JsonObject([k \in {"X"} |->
          JsonObject([n \in {"$defs", "$ref"} |->
              IF n = "$defs" THEN JsonObject([y \in {"Y"} |-> ShortString])
              ELSE JsonString("#/$defs/Y")])]),
      JsonObject([k \in {"X", "Y"} |->
          IF k = "Y" THEN ShortString
          ELSE JsonObject([n \in {"definitions", "type"} |->
                   IF n = "definitions" THEN JsonObject([y \in {"Z"} |-> RefTo("#/$defs/Y")])
                   ELSE JsonString("object")])]) }

RefChoices == { Absent, JsonString("#/$defs/X"), JsonString("#/$defs/Unknown") }

TypeChoices ==
    { Absent, JsonString("object"),
      JsonArray(<<JsonString("null"), JsonString("string")>>),
      JsonArray(<<JsonString("null")>>) }

PropertiesChoices ==
    { Absent,
      JsonObject([k \in {"a"} |-> RefTo("#/$defs/X")]),
      JsonObject([k \in {"a", "format"} |->
          IF k = "a"
            THEN JsonObject([n \in {"type", "format"} |->
                     IF n = "type" THEN JsonString("string") ELSE JsonString("email")])
            ELSE JsonObject([n \in {"type"} |-> JsonString("integer")])]) }

\* a keyword other than properties, items, anyOf, oneOf, allOf
PrefixItemsChoices ==
    { Absent,
      JsonArray(<< JsonObject([k \in {"type", "pattern"} |->
                       IF k = "type" THEN JsonString("string") ELSE JsonString("a+")]) >>) }

AnyOfChoices ==
    { Absent, JsonArray(<<RefTo("#/$defs/X"), ShortString>>) }

\* the trees given to clean_json_schema: well-formed, with an acyclic
\* definition graph
SchemaInputs ==
    { SchemaObject([k \in {"$defs", "$ref", "type", "properties", "prefixItems", "anyOf"} |->
          CASE k = "$defs" -> d
            [] k = "$ref" -> r
            [] k = "type" -> t
            [] k = "properties" -> p
            [] k = "prefixItems" -> o
            [] OTHER -> a]) :
        d \in DefsChoices, r \in RefChoices, t \in TypeChoices,
        p \in PropertiesChoices, o \in PrefixItemsChoices, a \in AnyOfChoices }

\* the number of calls of clean_json_schema made on the tree
CleanCalls == IF route = NotResolved THEN 0 ELSE route.calls

InitSchema ==
    /\ LifecycleInit
    /\ req \in SchemaInputs
    /\ route = NotResolved

\* one call of clean_json_schema on the tree, which it changes in place
CleanSchema ==
    /\ CleanCalls < MaxCleanCalls
    /\ req' = clean_json_schema(req)
    /\ route' = [tag |-> "Cleaned", calls |-> CleanCalls + 1]
    /\ UNCHANGED lifecycleVars

NextSchema == CleanSchema

SpecSchema == InitSchema /\ [][NextSchema]_vars

(***************************************************************************)
(* Scenario: two callers, one start call each, from Stopped.               *)
(***************************************************************************)
NextTwoStarts ==
    \/ \E p \in Clients, c \in Configs : InvokeStart(p, c)
    \/ \E p \in Clients : StartStep(p)

SpecTwoStarts == Init /\ [][NextTwoStarts]_vars

(***************************************************************************)
(* Scenario: p1 issues one start and p2 one stop at the same time, from    *)
(* Stopped or, when p3 has run a start to its end first, from Running      *)
(* (the sequence of cli.rs: start, then stop).                             *)
(***************************************************************************)
SetupStart(c) ==
    /\ pc["p1"] = "idle" /\ op["p1"] = "none"
    /\ pc["p2"] = "idle" /\ op["p2"] = "none"
    /\ InvokeStart("p3", c)

RaceStart(c) ==
    /\ pc["p3"] \in {"idle", "done"}
    /\ op["p1"] = "none"
    /\ InvokeStart("p1", c)

RaceStop ==
    /\ pc["p3"] \in {"idle", "done"}
    /\ op["p2"] = "none"
    /\ InvokeStop("p2")

NextStartStop ==
    \/ \E c \in Configs : SetupStart(c)
    \/ \E c \in Configs : RaceStart(c)
    \/ RaceStop
    \/ \E p \in {"p1", "p3"} : StartStep(p)
    \/ StopAcquire("p2")
    \/ StopJoin("p2")
    \/ \E l \in ListenerIds : ListenerExit(l)

SpecStartStop == Init /\ [][NextStartStop]_vars

(***************************************************************************)
(* Properties.                                                             *)
(***************************************************************************)
\* a step of caller p
Steps(p) == pc'[p] # pc[p]

\* the ProxyServiceInstance objects that exist: built at the launch of their
\* listener, dropped when stop has joined it
LiveInstances == { l \in ListenerIds : listener[l] # "unused" }

\* start returned with an instance published by it
Published(r) == IsOk(r) \/ r = Err(ErrConfigPersistFailed)

\* C1: two start calls issued together from Stopped, neither of which meets a
\* failure of its environment: exactly one returns Ok and the other the
\* already-running error; and at most one ProxyServiceInstance exists in every
\* state, the one in the slot.
C1_SingleInstance ==
    /\ ( /\ pc["p1"] = "done" /\ pc["p2"] = "done"
         /\ \A p \in Clients : IsOk(result[p]) \/ result[p] = Err(ErrRunningAlready) )
       => \E p, q \in Clients :
            /\ p # q
            /\ IsOk(result[p])
            /\ result[q] = Err(ErrRunningAlready)
    /\ Cardinality(LiveInstances) <= 1
    /\ instance.some => LiveInstances = {instance.server}

C1_Witness ==
    /\ IsOk(result["p1"])
    /\ result["p2"] = Err(ErrRunningAlready)
    /\ instance.some

\* C2: a start that returns an error other than already-running leaves the
\* instance slot empty.
C2_FailedStartPublishesNothing ==
    [][ \A p \in Procs :
          ( /\ op[p] = "start"
            /\ Steps(p)
            /\ pc'[p] = "done"
            /\ IsErr(result'[p])
            /\ result'[p] # Err(ErrRunningAlready) )
          => ~instance'.some ]_vars

\* the service was Running when p1 and p2 issued their calls
FromRunning == Published(result["p3"])

\* C3 (as stated): of a start and a stop issued together, at least one
\* returns an error.
C3_OneFails ==
    (pc["p1"] = "done" /\ pc["p2"] = "done")
      => IsErr(result["p1"]) \/ IsErr(result["p2"])

\* C3 (amended): the results of a start and a stop issued together are those
\* of one of the two sequential orders.  From Running the stop returns Ok, and
\* the start is rejected as already running exactly when it ran first.  From
\* Stopped the start is never rejected as already running, and the stop
\* returns not-running unless the start published its instance first, in
\* which case the stop returns Ok: both calls can return Ok.
C3_Serialised ==
    (pc["p1"] = "done" /\ pc["p2"] = "done")
      => IF FromRunning
           THEN /\ IsOk(result["p2"])
                /\ \/ result["p1"] = Err(ErrRunningAlready) /\ ~instance.some
                   \/ /\ result["p1"] # Err(ErrRunningAlready)
                      /\ instance.some <=> Published(result["p1"])
           ELSE /\ result["p1"] # Err(ErrRunningAlready)
                /\ \/ /\ result["p2"] = Err(ErrNotRunning)
                      /\ instance.some <=> Published(result["p1"])
                   \/ /\ IsOk(result["p2"])
                      /\ Published(result["p1"])
                      /\ ~instance.some

C3_Witness ==
    /\ pc["p1"] = "done" /\ pc["p2"] = "done"
    /\ IsOk(result["p1"]) /\ IsOk(result["p2"])
    /\ FromRunning

\* C4: a get_status made after a stop returned Ok, with no start call issued
\* or in progress since, returns running:false.
C4_RoundTrip ==
    [][ \A p \in Procs :
          (ghost.quiet /\ Steps(p) /\ op'[p] = "get_status")
          => /\ IsOk(result'[p])
             /\ result'[p].val.running = FALSE ]_vars

C4_Witness ==
    /\ ghost.quiet
    /\ ghost.published
    /\ \E p \in Procs : op[p] = "get_status" /\ result[p] = Ok(StoppedStatus)

\* the base_url expected for each port
ExpectedUrl(port) ==
    IF port = 8045 THEN "http://127.0.0.1:8045"
    ELSE IF port = 8046 THEN "http://127.0.0.1:8046"
    ELSE "?"

\* C5: get_status returns {false, 0, "", 0} exactly when the slot is empty;
\* otherwise running:true with the port passed to the start that published
\* the instance and base_url "http://127.0.0.1:<port>"; between a start
\* returning Ok and the next stop it reports that start's port.
C5_StatusMirrorsSlot ==
    [][ \A p \in Procs :
          (Steps(p) /\ op'[p] = "get_status")
          => LET st == result'[p].val
             IN /\ IsOk(result'[p])
                /\ (st = [running |-> FALSE, port |-> 0, base_url |-> "",
                          active_accounts |-> 0]) <=> ~instance.some
                /\ instance.some =>
                     /\ st.running
                     /\ st.port = ghost.pubPort
                     /\ st.port \in Ports
                     /\ st.base_url = ExpectedUrl(ghost.pubPort)
                /\ ghost.okPort # 0 =>
                     /\ st.running
                     /\ st.port = ghost.okPort ]_vars

C5_Witness ==
    /\ ghost.okPort = 8046
    /\ \E p \in Procs :
         /\ op[p] = "get_status"
         /\ pc[p] = "done"
         /\ result[p].val.running
         /\ result[p].val.port = 8046
         /\ result[p].val.base_url = "http://127.0.0.1:8046"

\* C6: a start that finds an instance published returns already-running, a
\* stop that finds the slot empty returns not-running, and neither call
\* changes the instance slot, the monitor slot (its toggle included) or any
\* listener.
C6_WrongStateNoOp ==
    [][ \A p \in Procs :
          /\ (pc[p] = "idle" /\ Steps(p) /\ op'[p] \in {"start", "stop"})
             => UNCHANGED <<instance, monitor, listener>>
          /\ (pc[p] = "start_lock" /\ Steps(p) /\ instance.some)
             => /\ pc'[p] = "done"
                /\ result'[p] = Err(ErrRunningAlready)
                /\ UNCHANGED <<instance, monitor, listener>>
          /\ (pc[p] = "stop_lock" /\ Steps(p) /\ ~instance.some)
             => /\ pc'[p] = "done"
                /\ result'[p] = Err(ErrNotRunning)
                /\ UNCHANGED <<instance, monitor, listener>> ]_vars

C6_Witness ==
    /\ result["p1"] = Err(ErrRunningAlready)
    /\ result["p2"] = Err(ErrNotRunning)
    /\ monitor.some

\* C7 (as stated): in every Stopped state get_stats returns the default
\* ProxyStats, get_logs(n) the empty list and get_status the stopped DTO.
C7_StoppedDefaults ==
    (~instance.some /\ wlock = "free")
      => /\ StatsOf(monitor) = DefaultStats
         /\ \A n \in 0..LogCapacity : LogsOf(monitor, n) = << >>
         /\ StatusOf(instance) = StoppedStatus

\* C7 (amended): get_status returns the stopped DTO in every Stopped state;
\* get_stats returns the default ProxyStats and get_logs(n) the empty list in
\* every state before the first listener is launched.
C7_DefaultsBeforeFirstRun ==
    /\ ~instance.some =>
         StatusOf(instance) = [running |-> FALSE, port |-> 0, base_url |-> "",
                               active_accounts |-> 0]
    /\ ~ghost.launched =>
         /\ StatsOf(monitor) = [total_requests |-> 0]
         /\ \A n \in 0..LogCapacity : LogsOf(monitor, n) = << >>

C7_Witness ==
    /\ ~instance.some
    /\ ~ghost.launched
    /\ monitor.some
    /\ monitor.enabled
    /\ \E p \in Procs : op[p] = "get_stats" /\ result[p] = Ok(DefaultStats)

C9_NoAccounts ==
    [][ \A p \in Procs :
          (pc[p] = "start_accounts" /\ Steps(p) /\ local[p].active_accounts = 0)
          => LET zai == cfg[p].zai_enabled /\ cfg[p].zai_dispatch_mode # "Off"
                 failed == /\ pc'[p] = "done"
                           /\ result'[p] = Err(ErrNoAccounts)
                           /\ UNCHANGED <<instance, listener>>
                           /\ ~instance'.some
             IN /\ failed <=> ~zai
                /\ zai => pc'[p] = "start_launch" ]_vars

C9_Witness ==
    /\ result["p1"] = Err(ErrNoAccounts)
    /\ ~instance.some
    /\ pc["p2"] = "start_launch"
    /\ local["p2"].active_accounts = 0
    /\ cfg["p2"].zai_enabled

\* the custom table has a wildcard entry that matches the model
WildcardMatches(r) ==
    \E k \in DOMAIN r.custom : Contains(k, "*") /\ wildcard_match(k, r.model)

\* C10: when custom has the key m itself, resolve_model_route returns
\* custom[m], whatever the wildcard entries of custom, the family tables, the
\* flag and the built-in map say.
C10_ExactOverride ==
    (route # NotResolved /\ req.model \in DOMAIN req.custom)
      => route.target = req.custom[req.model]

C10_Witness ==
    /\ route # NotResolved
    /\ req.model = "gpt-4"
    /\ DOMAIN req.custom = {"gpt-4", "gpt-4*"}
    /\ req.custom["gpt-4"] = "gemini-3-pro-high"
    /\ req.custom["gpt-4*"] = "strategy:fast"
    /\ WildcardMatches(req)
    /\ DOMAIN req.openai = {"gpt-4-series"}
    /\ route.target = "gemini-3-pro-high"

\* C11: resolve_model_route returns the same target for the same tables and
\* model on every call: the target of a call equals the target computed under
\* every order in which the entries of custom can be enumerated, also when
\* several wildcard patterns of custom match the model.
C11_OrderIndependent ==
    (route # NotResolved /\ route.tag = "Route")
      => \A order \in Orders(DOMAIN req.custom) :
           resolve_model_route(req.model, req.custom, req.openai, req.anthropic,
               req.apply_claude_family_mapping, order) = route.target

\* the keys of anthropic_mapping that name a Claude family
ClaudeFamilyKeys == { "claude-4.5-series", "claude-3.5-series", "claude-default" }

\* the mapping without the entries of the given keys
WithoutKeys(mapping, keys) == [k \in DOMAIN mapping \ keys |-> mapping[k]]

\* C16: with apply_claude_family_mapping false, the target of a claude- model
\* that no entry of custom matches does not depend on the entries
\* claude-4.5-series, claude-3.5-series and claude-default of the anthropic
\* table: it is the target resolved with these entries removed.
C16_FamilySkippedForNonCli ==
    ( /\ route # NotResolved
      /\ route.tag = "Route"
      /\ ~req.apply_claude_family_mapping
      /\ StartsWith(ToLowercase(req.model), "claude-")
      /\ req.model \notin DOMAIN req.custom
      /\ ~WildcardMatches(req) )
      => \A order \in Orders(DOMAIN req.custom) :
           route.target =
               resolve_model_route(req.model, req.custom, req.openai,
                   WithoutKeys(req.anthropic, ClaudeFamilyKeys), FALSE, order)

\* C12: no element of candidates() of a plan returned by
\* resolve_model_route_plan is the empty string, and none begins with
\* "strategy:".
C12_CandidateIntegrity ==
    (route # NotResolved /\ route.tag = "Plan")
      => LET list == candidates(route.plan)
         IN \A i \in DOMAIN list :
              list[i] # "" /\ ~StartsWith(list[i], "strategy:")

\* the hop limit of the plan is Some(h) with h > 0
HopsLimited(plan) ==
    plan.policy.max_model_hops.some /\ plan.policy.max_model_hops.value > 0

\* the smaller of two numbers
Min(a, b) == IF a < b THEN a ELSE b

\* C13: for every plan, max_models() <= len(candidates()), and
\* max_models() >= 1 when candidates() is non-empty; with max_model_hops
\* Some(h), h > 0, max_models() = min(h, len(candidates())), and with None or
\* Some(0) max_models() = len(candidates()).
C13_HopClamp ==
    (route # NotResolved /\ route.tag = "Count")
      => LET count == Len(route.candidates)
         IN /\ route.max_models <= count
            /\ count > 0 => route.max_models >= 1
            /\ HopsLimited(req) =>
                 route.max_models = Min(req.policy.max_model_hops.value, count)
            /\ ~HopsLimited(req) => route.max_models = count

\* C13, amended: max_models() <= len(candidates()) and max_models() >= 1 when
\* candidates() is non-empty; with max_model_hops Some(h), h > 0,
\* max_models() = min(h, len(candidates())); with None or Some(0) it is
\* len(candidates()) when candidates() is non-empty and 1 when it is empty.
C13_HopClampFloor ==
    (route # NotResolved /\ route.tag = "Count")
      => LET count == Len(route.candidates)
         IN /\ count > 0 => route.max_models <= count /\ route.max_models >= 1
            /\ HopsLimited(req) =>
                 route.max_models = Min(req.policy.max_model_hops.value, count)
            /\ (~HopsLimited(req) /\ count > 0) => route.max_models = count
            /\ (~HopsLimited(req) /\ count = 0) => route.max_models = 1

C13_Witness ==
    /\ route # NotResolved
    /\ route.tag = "Count"
    /\ req.primary = ""
    /\ req.fallbacks = <<"">>
    /\ req.policy.max_model_hops = Some(0)
    /\ route.candidates = << >>
    /\ route.max_models = 1

\* the value begins with the sentinel prefix
IsSentinel(value) == StartsWith(value, "strategy:")

\* the strategy id that a sentinel names
SentinelId(value) == SubSeq(value, Len("strategy:") + 1, Len(value))

\* the candidates that survive: trimmed, non-empty, not naming a strategy,
\* in their original order
RECURSIVE Survivors(_)
Survivors(cs) ==
    IF cs = << >> THEN << >>
    ELSE LET c == Trim(Head(cs))
         IN (IF c = "" \/ IsSentinel(c) THEN << >> ELSE <<c>>) \o Survivors(Tail(cs))

\* the strategy named by the resolved target exists and has a survivor
ExpansionSucceeds ==
    /\ IsSentinel(route.target)
    /\ SentinelId(route.target) \in DOMAIN req.strategies
    /\ Survivors(req.strategies[SentinelId(route.target)].candidates) # << >>

\* C14: when resolve_model_route yields "strategy:<id>" and strategies[id]
\* exists with at least one surviving candidate, the plan has the first
\* survivor as primary, the remaining survivors in their original order as
\* fallbacks, the policy of the strategy and strategy_id Some(id).
C14_StrategyExpansion ==
    (route # NotResolved /\ route.tag = "Plan" /\ ExpansionSucceeds)
      => LET id == SentinelId(route.target)
             survivors == Survivors(req.strategies[id].candidates)
         IN /\ route.plan.primary = Head(survivors)
            /\ route.plan.fallbacks = Tail(survivors)
            /\ route.plan.policy = req.strategies[id].policy
            /\ route.plan.strategy_id = [some |-> TRUE, value |-> id]

C14_Witness ==
    /\ route # NotResolved
    /\ route.tag = "Plan"
    /\ req.model = "claude-opus-4-5-20251101"
    /\ req.custom = EmptyTable
    /\ req.apply_claude_family_mapping
    /\ DOMAIN req.anthropic = {"claude-4.5-series"}
    /\ route.target = "strategy:fast"
    /\ DOMAIN req.strategies = {"fast"}
    /\ req.strategies["fast"].candidates = <<" strategy:slow", " gemini-3-flash ">>
    /\ req.strategies["fast"].policy.model_priority = "CapacityFirst"
    /\ route.plan.primary = "gemini-3-flash"
    /\ route.plan.fallbacks = << >>
    /\ route.plan.policy.model_priority = "CapacityFirst"
    /\ route.plan.strategy_id.some

\* C15: when resolve_model_route yields "strategy:<id>" and strategies[id] is
\* missing or has no surviving candidate, the plan has the built-in map of
\* the original model as primary, no fallbacks, the default policy
\* (AccuracyFirst, Strong, no hop limit) and strategy_id None.
C15_FailedExpansionFallsThrough ==
    ( /\ route # NotResolved
      /\ route.tag = "Plan"
      /\ IsSentinel(route.target)
      /\ ~ExpansionSucceeds )
      => /\ route.plan.primary = map_claude_model_to_gemini(req.model)
         /\ route.plan.fallbacks = << >>
         /\ route.plan.policy =
              [ model_priority |-> "AccuracyFirst",
                stickiness |-> "Strong",
                max_model_hops |-> [some |-> FALSE] ]
         /\ route.plan.strategy_id = [some |-> FALSE]

C15_Witness ==
    /\ route # NotResolved
    /\ route.tag = "Plan"
    /\ req.model = "claude-3-5-sonnet-20241022"
    /\ DOMAIN req.custom = {"claude-3-5-sonnet-20241022"}
    /\ route.target = "strategy:missing"
    /\ DOMAIN req.anthropic = {"claude-4.5-series"}
    /\ DOMAIN req.strategies = {"fast"}
    /\ route.plan.primary = "claude-sonnet-4-5"
    /\ route.plan.fallbacks = << >>
    /\ ~route.plan.strategy_id.some

\* the listeners whose background task has not ended
RunningListeners == { l \in ListenerIds : listener[l] \in {"running", "signalled"} }

\* caller p releases the instance write lock in this step
Releases(p) == wlock = p /\ wlock' = "free"

\* C19: at most one listener runs at any time; a listener is launched only
\* while the slot is empty, the launching caller holds the write lock and no
\* earlier listener still runs; a start that launched a listener releases the
\* lock with that listener published in the slot; stop releases the lock
\* only when the listener it signalled has ended.
C19_OneListener ==
    /\ [](Cardinality(RunningListeners) <= 1)
    /\ [][ /\ \A l \in ListenerIds :
                (listener[l] = "unused" /\ listener'[l] = "running")
                  => /\ ~instance.some
                     /\ RunningListeners = {}
                     /\ \E p \in Procs :
                          wlock = p /\ pc[p] = "start_launch" /\ local'[p].server = l
           /\ \A p \in Procs :
                (Releases(p) /\ op[p] = "start" /\ local[p].server \in ListenerIds)
                  => /\ instance'.some
                     /\ instance'.server = local[p].server
                     /\ listener'[local[p].server] = "running"
           /\ \A p \in Procs :
                (Releases(p) /\ op[p] = "stop")
                  => /\ pc[p] = "stop_await"
                     /\ listener[local[p].server] = "exited"
                     /\ local[p].server \notin RunningListeners' ]_vars

C19_Witness ==
    /\ pc["p1"] = "stop_await"
    /\ wlock = "p1"
    /\ listener[local["p1"].server] = "signalled"
    /\ RunningListeners = {local["p1"].server}
    /\ op["p2"] = "start"
    /\ pc["p2"] = "start_lock"
    /\ ghost.quiet = FALSE
    /\ ~instance.some

\* C17: applying clean_json_schema to a tree that a call of it has already
\* cleaned leaves the tree as it is, also when a definition inlined at the
\* root carries $defs, definitions or $ref keys.
C17_FlattenerIdempotent ==
    [][ (route # NotResolved /\ route.tag = "Cleaned") => req' = req ]_vars

\* the keys that no schema node of a flattened tree may carry
ForbiddenKeys == FieldsToRemove \cup {"$ref", "$defs", "definitions"}

\* some schema node of the tree carries a forbidden key; the value of
\* properties is a map from property names to schema nodes, every other
\* object is a schema node
RECURSIVE CarriesForbiddenKey(_)
CarriesForbiddenKey(value) ==
    IF IsObject(value)
      THEN \/ DOMAIN value.m \cap ForbiddenKeys # {}
           \/ \E k \in DOMAIN value.m :
                IF k = "properties" /\ IsObject(value.m[k])
                  THEN \E n \in DOMAIN value.m[k].m : CarriesForbiddenKey(value.m[k].m[n])
                  ELSE CarriesForbiddenKey(value.m[k])
    ELSE IF IsArray(value)
      THEN \E i \in DOMAIN value.a : CarriesForbiddenKey(value.a[i])
    ELSE FALSE

\* C18: after clean_json_schema no schema node of the tree, at any depth and
\* under any keyword, carries a key of the strip list nor $ref, $defs or
\* definitions.
C18_FlattenerClosure ==
    (route # NotResolved /\ route.tag = "Cleaned") => ~CarriesForbiddenKey(req)

====
